---- MODULE Spec2Model ----
(***************************************************************************)
(* pyannote.audio.applications.speech_detection                            *)
(*                                                                         *)
(* Four specifications over one set of variables:                          *)
(*   SpecEval   one objective evaluation `fun` of validate_epoch, at the   *)
(*              granularity of the worker processes of the pool;           *)
(*   Spec       a validation session: validate_init, then validate_epoch   *)
(*              (load, scoring loop, bounded scalar minimisation, return); *)
(*   SpecApply  SpeechActivityDetection.apply;                             *)
(*   SpecDriver the epoch watcher of the "validate" mode.                  *)
(* Time is counted in frames, thresholds in steps of 1/Scale, and a        *)
(* detection error rate is kept as the exact pair (err, total).            *)
(***************************************************************************)
EXTENDS Integers, Sequences, FiniteSets, TLC

VARIABLES
    \* ---- one objective evaluation (SpecEval)
    e_pc,          \* "idle" | "mapping" | "raised": where the caller of fun is
    threshold,     \* the candidate threshold fun was called with
    queue,         \* files of the running pool.map not yet taken by a worker
    workers,       \* per worker process: its task, pickled pipeline, position
    metric,        \* DetectionErrorRate(parallel=True): the shared accumulator
    e_failed,      \* a task of the running map has raised
    ret,           \* what fun returned last (None before)
    \* ---- validation session (Spec)
    pc,            \* where the session is: "new", "ready", "scoring",
                   \* "optimizing", "optimized", "raised"
    pool_,         \* self.pool_: the pool's number, 0 when there is none
    poolsCreated,  \* pools created so far
    epoch, model,  \* the epoch being validated, the checkpoint loaded
    loads,         \* checkpoints loaded by the running validate_epoch
    sad_scores,    \* per file: the checkpoint that computed its scores
    scored,        \* files the scoring loop has been through
    validated,     \* epochs validate_epoch has returned a result for
    num, x, xf, fx,    \* minimize_scalar: evaluations, last and best point
    nmaps,         \* maps (objective evaluations) of the running call
    lowest,        \* the lowest value fun has returned in the running call
    usedTags,      \* the checkpoints of the scores the evaluations used
    usedPools,     \* the pools the maps ran on
    pipeline,      \* the parameters the pipeline is instantiated with
    result,        \* what validate_epoch returned last
    raisedIn,      \* the epoch whose validation raised (0: none)
    \* ---- apply (SpecApply)
    a_pc, duration, stepArg, subset, step, sequence_labeling, precomputed,
    files,
    \* ---- epoch watcher (SpecDriver)
    d_pc, start, end, every, in_order, arrived, processed, current

varsE == <<e_pc, threshold, queue, workers, metric, e_failed, ret>>
varsV == <<pc, pool_, poolsCreated, epoch, model, loads, sad_scores, scored,
           validated, num, x, xf, fx, nmaps, lowest, usedTags, usedPools,
           pipeline, result, raisedIn>>
varsA == <<a_pc, duration, stepArg, subset, step, sequence_labeling,
           precomputed, files>>
varsD == <<d_pc, start, end, every, in_order, arrived, processed, current>>
vars == <<varsE, varsV, varsA, varsD>>

None == "None"

(***************************************************************************)
(* Bounds of the model.                                                    *)
(***************************************************************************)
NFiles == 2        \* validation files
NWorkers == 2      \* processes of the pool (mp.cpu_count())
NFrames == 3       \* frames of a score stream
Scale == 2         \* thresholds and scores are k/Scale, k in 0..Scale
NEpochs == 2       \* checkpoints a session validates

Files == 1..NFiles
Workers == 1..NWorkers
Frames == 1..NFrames
Epochs == 1..NEpochs

\* bounds=(0., 1.) of the minimize_scalar call, in steps of 1/Scale
bounds == [lo |-> 0, hi |-> Scale]
Thresholds == bounds.lo..bounds.hi

\* (mutant) the cap of the optimizer is one evaluation too high
maxiterOffByOne == 10 + 1

\* options={'maxiter': 10}
maxiter == 10

(***************************************************************************)
(* The data of a validation file: its reference annotation and the score   *)
(* stream a checkpoint produces for it.                                    *)
(***************************************************************************)
\* current_file['annotation']: the frames that are speech
annotation(f) == {i \in Frames : (i + f) % 2 = 0}

\* sequence_labeling(current_file) with the model of epoch ep
SequenceLabeling(f, ep) == [i \in Frames |-> (f * i + ep + i) % (Scale + 1)]

\* pipeline.instantiate({...}) of fun and of the returned result
Params(th) == [onset |-> th, offset |-> th, min_duration_on |-> 0,
               min_duration_off |-> 0, pad_onset |-> 0, pad_offset |-> 0]

\* pipeline(current_file): onset = offset, no padding, no minimum duration:
\* a frame is speech iff its score is above the threshold
Hypothesis(scores, params) == {i \in Frames : scores[i] > params.onset}

\* metric(reference, hypothesis, uem=uem): the components of one file
\* (false alarm + missed detection, and the reference duration)
Components(reference, hypothesis) ==
    [err   |-> Cardinality((hypothesis \ reference) \cup (reference \ hypothesis)),
     total |-> Cardinality(reference)]

validate_helper_func(f, ep, params) ==
    Components(annotation(f), Hypothesis(SequenceLabeling(f, ep), params))

\* validate_helper_func for every file, checkpoint and threshold, tabulated
HelperTable ==
    [f \in Files, ep \in 0..NEpochs, th \in Thresholds |->
        validate_helper_func(f, ep, Params(th))]

\* the sum of component c over the files S, each with the scores it carries
\* (scores[f] is the epoch whose checkpoint computed the scores of file f)
RECURSIVE SumOver(_, _, _, _)
SumOver(S, scores, params, c) ==
    IF S = {} THEN 0
    ELSE LET f == CHOOSE g \in S : TRUE
         IN HelperTable[f, scores[f], params.onset][c]
            + SumOver(S \ {f}, scores, params, c)

\* values of variables that are not set yet
NoParams == Params(-1)
NoValue == [err |-> -1, total |-> -1]
NoRet == [th |-> -1, value |-> NoValue]
NoResult == [metric |-> "", minimize |-> TRUE, value |-> NoValue,
             pipeline |-> NoParams]

\* rates are compared exactly: a.err / a.total <= b.err / b.total
Leq(a, b) == a.err * b.total <= b.err * a.total
RatEq(a, b) == a.err * b.total = b.err * a.total

(***************************************************************************)
(* SpecEval: fun(threshold) of validate_epoch, with the worker processes   *)
(* of self.pool_.  The metric is built with parallel=True: its accumulated *)
(* components live in one manager-backed object that every worker updates  *)
(* with `accumulated_[name] += components[name]`, a read of the shared     *)
(* value followed by a write of the sum, with no lock in between.          *)
(***************************************************************************)
ComponentNames == <<"err", "total">>

IdleWorker == [st |-> "idle", file |-> 0, params |-> NoParams, comp |-> NoValue,
               ci |-> 0, tmp |-> 0]

\* a session in the middle of minimize_scalar: pool created, epoch loaded,
\* every file scored with it
InitSessionOptimizing ==
    /\ pc = "optimizing" /\ pool_ = 1 /\ poolsCreated = 1
    /\ epoch \in Epochs /\ model = epoch
    /\ loads = 1
    /\ sad_scores = [f \in Files |-> epoch] /\ scored = NFiles
    /\ validated = {} /\ num = 0 /\ x = -1 /\ xf = -1 /\ fx = NoValue
    /\ nmaps = 0 /\ lowest = NoValue /\ usedTags = {} /\ usedPools = {}
    /\ pipeline = NoParams /\ result = NoResult /\ raisedIn = 0

\* fun, up to the call of self.pool_.map: the pipeline is re-instantiated
\* with the candidate, a fresh metric is built, one task per file is queued
FunCall(th) ==
    /\ e_pc = "idle"
    /\ num < maxiter
    /\ threshold' = th
    /\ pipeline' = Params(th)
    /\ metric' = [err |-> 0, total |-> 0]
    /\ queue' = Files
    /\ e_failed' = FALSE
    /\ ret' = NoRet
    /\ e_pc' = "mapping"
    /\ num' = num + 1
    /\ nmaps' = nmaps + 1
    /\ usedPools' = usedPools \cup {pool_}
    /\ UNCHANGED <<workers, pc, pool_, poolsCreated, epoch, model, loads,
                   sad_scores, scored, validated, x, xf, fx, lowest, usedTags,
                   result, raisedIn>>
    /\ UNCHANGED <<varsA, varsD>>

\* a worker takes a task and runs validate_helper_func on its own copy of
\* the file and of the pipeline, up to the metric's accumulation
WorkerTake(w, f) ==
    /\ e_pc = "mapping"
    /\ workers[w].st = "idle"
    /\ f \in queue
    /\ queue' = queue \ {f}
    /\ workers' = [workers EXCEPT ![w] =
           [st |-> "pending", file |-> f, params |-> pipeline,
            comp |-> HelperTable[f, sad_scores[f], pipeline.onset],
            ci |-> 1, tmp |-> 0]]
    /\ UNCHANGED <<e_pc, threshold, metric, e_failed, ret>>
    /\ UNCHANGED <<varsV, varsA, varsD>>

\* a worker takes a task and the evaluation of the file raises
WorkerRaise(w, f) ==
    /\ e_pc = "mapping"
    /\ workers[w].st = "idle"
    /\ f \in queue
    /\ queue' = queue \ {f}
    /\ e_failed' = TRUE
    /\ UNCHANGED <<e_pc, threshold, workers, metric, ret>>
    /\ UNCHANGED <<varsV, varsA, varsD>>

\* accumulated_[name] += components[name], first half: read the shared value
WorkerRead(w) ==
    /\ workers[w].st = "pending"
    /\ workers' = [workers EXCEPT ![w].st = "read",
                       ![w].tmp = metric[ComponentNames[workers[w].ci]]]
    /\ UNCHANGED <<e_pc, threshold, queue, metric, e_failed, ret>>
    /\ UNCHANGED <<varsV, varsA, varsD>>

\* second half: write the sum back, then go on to the next component
WorkerWrite(w) ==
    /\ workers[w].st = "read"
    /\ LET c == ComponentNames[workers[w].ci]
       IN metric' = [metric EXCEPT ![c] = workers[w].tmp + workers[w].comp[c]]
    /\ workers' = [workers EXCEPT ![w] =
           IF workers[w].ci < Len(ComponentNames)
           THEN [workers[w] EXCEPT !.st = "pending", !.ci = workers[w].ci + 1,
                                   !.tmp = 0]
           ELSE IdleWorker]
    /\ UNCHANGED <<e_pc, threshold, queue, e_failed, ret>>
    /\ UNCHANGED <<varsV, varsA, varsD>>

\* (mutant) the map returns as soon as every task has been handed out
MapCompleteEarly == queue = {}

\* self.pool_.map blocks until every task of the map has ended
MapComplete == queue = {} /\ \A w \in Workers : workers[w].st = "idle"

\* the map has returned: fun returns abs(metric)
FunReturn ==
    /\ e_pc = "mapping"
    /\ MapComplete
    /\ ~e_failed
    /\ ret' = [th |-> threshold, value |-> metric]
    /\ e_pc' = "idle"
    /\ UNCHANGED <<threshold, queue, workers, metric, e_failed>>
    /\ UNCHANGED <<varsV, varsA, varsD>>

\* the map re-raises the exception of a task: fun, minimize_scalar and
\* validate_epoch are left by the exception
FunRaise ==
    /\ e_pc = "mapping"
    /\ MapComplete
    /\ e_failed
    /\ e_pc' = "raised"
    /\ pc' = "raised"
    /\ raisedIn' = epoch
    /\ UNCHANGED <<threshold, queue, workers, metric, e_failed, ret>>
    /\ UNCHANGED <<pool_, poolsCreated, epoch, model, loads, sad_scores,
                   scored, validated, num, x, xf, fx, nmaps, lowest, usedTags,
                   usedPools, pipeline, result>>
    /\ UNCHANGED <<varsA, varsD>>

IdleEval ==
    /\ e_pc = "idle" /\ threshold = -1 /\ queue = {}
    /\ workers = [w \in Workers |-> IdleWorker]
    /\ metric = NoValue /\ e_failed = FALSE /\ ret = NoRet

NoLabeler == [duration |-> 0, step |-> 0]
NoStore == [sliding_window |-> NoLabeler, dimension |-> "", dumped |-> {}]

IdleApply ==
    /\ a_pc = "idle" /\ duration = 0 /\ stepArg = <<>> /\ subset = None
    /\ step = 0 /\ sequence_labeling = NoLabeler /\ precomputed = NoStore
    /\ files = <<>>

IdleDriver ==
    /\ d_pc = "idle" /\ start = 0 /\ end = 0 /\ every = 0
    /\ in_order = FALSE /\ arrived = <<>> /\ processed = <<>>
    /\ current = -1

InitEval == InitSessionOptimizing /\ IdleEval /\ IdleApply /\ IdleDriver

NextEval ==
    \/ \E th \in Thresholds : FunCall(th)
    \/ \E w \in Workers, f \in Files : WorkerTake(w, f)
    \/ \E w \in Workers, f \in Files : WorkerRaise(w, f)
    \/ \E w \in Workers : WorkerRead(w)
    \/ \E w \in Workers : WorkerWrite(w)
    \/ FunReturn
    \/ FunRaise

SpecEval == InitEval /\ [][NextEval]_vars

\* what one evaluation returns when the files are evaluated one after another
SerialAggregate(th) ==
    [err   |-> SumOver(Files, sad_scores, Params(th), "err"),
     total |-> SumOver(Files, sad_scores, Params(th), "total")]

\* a rate agrees with the per-file average of the rates err/total
\* (sum of err_f / total_f over the files, divided by the number of files)
RECURSIVE RateSum(_, _)
RateSum(S, th) ==
    IF S = {} THEN [err |-> 0, total |-> 1]
    ELSE LET f == CHOOSE g \in S : TRUE
             c == HelperTable[f, sad_scores[f], th]
             r == RateSum(S \ {f}, th)
         IN [err |-> c.err * r.total + r.err * c.total,
             total |-> c.total * r.total]

AverageOfRates(th) ==
    LET r == RateSum(Files, th)
    IN [err |-> r.err, total |-> r.total * NFiles]

(***************************************************************************)
(* Claims checked under SpecEval                                           *)
(***************************************************************************)
\* C4: whatever the order in which the workers take the files and however
\* their steps interleave, the aggregate fun reads after the map holds every
\* file's contribution exactly once: it is the aggregate of a serial run.
C4_AggregateAsSerial ==
    (e_pc = "idle" /\ ret # NoRet) => ret.value = SerialAggregate(ret.th)

\* C7: the scalar of one objective evaluation is (sum of the files' error
\* durations) / (sum of the files' reference durations), over the files of
\* this evaluation only, and not the average of the files' rates.
C7_RateIsSumOverSum ==
    ret # NoRet =>
        /\ RatEq(ret.value, SerialAggregate(ret.th))
        /\ ~RatEq(AverageOfRates(ret.th), SerialAggregate(ret.th)) =>
               ~RatEq(ret.value, AverageOfRates(ret.th))

\* C10: objective evaluations never overlap: a worker is busy only while the
\* driver is blocked in the map of the current candidate, and with the
\* pipeline configuration of that candidate; when the driver is not in a map
\* (choosing the next candidate), no task is queued or running, and the
\* aggregate of the last map has been read.
C10_NoOverlap ==
    /\ \A w \in Workers :
          workers[w].st # "idle" =>
             /\ e_pc = "mapping"
             /\ workers[w].params = Params(threshold)
             /\ pipeline = Params(threshold)
    /\ e_pc # "mapping" =>
          /\ queue = {}
          /\ \A w \in Workers : workers[w].st = "idle"
    /\ (e_pc = "idle" /\ nmaps > 0) => (ret # NoRet /\ ret.th = threshold)

\* a second evaluation is running with a candidate its worker was handed
C10_Witness ==
    /\ nmaps >= 2
    /\ e_pc = "mapping"
    /\ \E w \in Workers : workers[w].st = "read" /\ workers[w].params.onset = threshold

(***************************************************************************)
(* Spec: a validation session.  validate_init builds the pool and the     *)
(* validation data; validate_epoch loads the checkpoint, scores every      *)
(* file, and runs scipy.optimize.minimize_scalar(fun, bounds=(0., 1.),     *)
(* method='bounded', options={'maxiter': 10}).  Here one call of fun is    *)
(* one step; what it returns ranges over the outcomes of SpecEval.         *)
(***************************************************************************)
NonEmptySubsets(S) == SUBSET S \ {{}}

\* what abs(metric) can be after the map of fun(th): for each component the
\* last write holds the contributions of the files along one chain of
\* read-then-write updates; with a single worker, of all the files
Kept == IF NWorkers = 1 THEN {Files} ELSE NonEmptySubsets(Files)

\* the values component c can end with
ComponentTable ==
    [scores \in [Files -> 0..NEpochs], th \in Thresholds,
     c \in {"err", "total"} |->
        {SumOver(S, scores, Params(th), c) : S \in Kept}]

ComponentOutcomes(th, c) == ComponentTable[sad_scores, th, c]

\* the two components are updated one after the other: any pair can result
FunOutcomes(th) ==
    {[err |-> e, total |-> t] : e \in ComponentOutcomes(th, "err"),
                                t \in ComponentOutcomes(th, "total")}

\* the driver of the session calls validate_init first, and once
SessionNotStarted == pc = "new"

\* the driver calls validate_epoch between two epochs of a started session,
\* with an epoch it has not validated yet
SessionMayValidate(e) == pc = "ready" /\ e \in Epochs \ validated

InitSession ==
    /\ pc = "new" /\ pool_ = 0 /\ poolsCreated = 0
    /\ epoch = 0 /\ model = 0 /\ loads = 0
    /\ sad_scores = [f \in Files |-> 0] /\ scored = 0
    /\ validated = {} /\ num = 0 /\ x = -1 /\ xf = -1 /\ fx = NoValue
    /\ nmaps = 0 /\ lowest = NoValue /\ usedTags = {} /\ usedPools = {}
    /\ pipeline = NoParams /\ result = NoResult /\ raisedIn = 0

\* validate_init: self.pool_ = mp.Pool(mp.cpu_count()); returns the files
validate_init ==
    /\ SessionNotStarted
    /\ poolsCreated' = poolsCreated + 1
    /\ pool_' = poolsCreated + 1
    /\ pc' = "ready"
    /\ UNCHANGED <<epoch, model, loads, sad_scores, scored, validated, num, x,
                   xf, fx, nmaps, lowest, usedTags, usedPools, pipeline,
                   result, raisedIn>>
    /\ UNCHANGED <<varsE, varsA, varsD>>

\* (mutant) validate_epoch builds a pool of its own for the epoch
validate_epoch_load_new_pool(e) ==
    /\ SessionMayValidate(e)
    /\ epoch' = e
    /\ model' = e
    /\ loads' = 1
    /\ scored' = 0
    /\ num' = 0 /\ x' = -1 /\ xf' = -1 /\ fx' = NoValue
    /\ nmaps' = 0 /\ lowest' = NoValue /\ usedTags' = {}
    /\ result' = NoResult
    /\ pc' = "scoring"
    /\ poolsCreated' = poolsCreated + 1
    /\ pool_' = poolsCreated + 1
    /\ UNCHANGED <<sad_scores, validated, usedPools, pipeline, raisedIn>>
    /\ UNCHANGED <<varsE, varsA, varsD>>

\* validate_epoch, up to the scoring loop: load the model of the epoch and
\* build the sequence labeler; the pool is left alone
validate_epoch_load(e) ==
    /\ SessionMayValidate(e)
    /\ epoch' = e
    /\ model' = e
    /\ loads' = 1
    /\ scored' = 0
    /\ num' = 0 /\ x' = -1 /\ xf' = -1 /\ fx' = NoValue
    /\ nmaps' = 0 /\ lowest' = NoValue /\ usedTags' = {}
    /\ result' = NoResult
    /\ pc' = "scoring"
    /\ UNCHANGED <<pool_, poolsCreated, sad_scores, validated, usedPools,
                   pipeline, raisedIn>>
    /\ UNCHANGED <<varsE, varsA, varsD>>

\* (mutant) a file that already carries scores keeps them
ScoreOfCached(f) == IF sad_scores[f] # 0 THEN sad_scores[f] ELSE model

\* current_file['sad_scores'] = sequence_labeling(current_file)
ScoreOf(f) == model

\* one turn of the scoring loop
validate_epoch_score ==
    /\ pc = "scoring"
    /\ scored < NFiles
    /\ sad_scores' = [sad_scores EXCEPT ![scored + 1] = ScoreOf(scored + 1)]
    /\ scored' = scored + 1
    /\ UNCHANGED <<pc, pool_, poolsCreated, epoch, model, loads, validated,
                   num, x, xf, fx, nmaps, lowest, usedTags, usedPools,
                   pipeline, result, raisedIn>>
    /\ UNCHANGED <<varsE, varsA, varsD>>

\* the loop is over: pipeline = SpeechActivityDetectionPipeline(), and
\* minimize_scalar is entered
validate_epoch_minimize ==
    /\ pc = "scoring"
    /\ scored = NFiles
    /\ pipeline' = NoParams
    /\ pc' = "optimizing"
    /\ UNCHANGED <<pool_, poolsCreated, epoch, model, loads, sad_scores,
                   scored, validated, num, x, xf, fx, nmaps, lowest, usedTags,
                   usedPools, result, raisedIn>>
    /\ UNCHANGED <<varsE, varsA, varsD>>

\* the lower of two rates (the first, when there is none yet)
Lower(v, w) == IF w = NoValue \/ ~Leq(w, v) THEN v ELSE w

\* the bookkeeping of fun(c) = v, common to every evaluation of a call
\* (c is a point of the bounds and v one of FunOutcomes(c))
Evaluated(c, v) ==
    /\ pool_ # 0
    /\ x' = c
    /\ pipeline' = Params(c)
    /\ nmaps' = nmaps + 1
    /\ usedPools' = usedPools \cup {pool_}
    /\ usedTags' = usedTags \cup {sad_scores[f] : f \in Files}
    /\ lowest' = Lower(v, lowest)

\* minimize_scalar, before its loop: the objective at the first point
minimize_first(c, v) ==
    /\ pc = "optimizing"
    /\ num = 0
    /\ Evaluated(c, v)
    /\ xf' = c
    /\ fx' = v
    /\ num' = 1
    /\ UNCHANGED <<pc, pool_, poolsCreated, epoch, model, loads, sad_scores,
                   scored, validated, result, raisedIn>>
    /\ UNCHANGED <<varsE, varsA, varsD>>

\* one turn of the loop of minimize_scalar: the objective at a new point of
\* the bounds, the best point kept, and the loop left at the cap
minimize_iter(c, v) ==
    /\ pc = "optimizing"
    /\ num >= 1
    /\ Evaluated(c, v)
    /\ IF Leq(v, fx) THEN xf' = c /\ fx' = v ELSE UNCHANGED <<xf, fx>>
    /\ num' = num + 1
    /\ pc' = IF num + 1 >= maxiter THEN "optimized" ELSE "optimizing"
    /\ UNCHANGED <<pool_, poolsCreated, epoch, model, loads, sad_scores,
                   scored, validated, result, raisedIn>>
    /\ UNCHANGED <<varsE, varsA, varsD>>

\* the loop of minimize_scalar is left because the bracket is small enough
minimize_converged ==
    /\ pc = "optimizing"
    /\ num >= 1
    /\ pc' = "optimized"
    /\ UNCHANGED <<pool_, poolsCreated, epoch, model, loads, sad_scores,
                   scored, validated, num, x, xf, fx, nmaps, lowest, usedTags,
                   usedPools, pipeline, result, raisedIn>>
    /\ UNCHANGED <<varsE, varsA, varsD>>

\* (mutant) the failure of a file is swallowed: the evaluation goes on with
\* the aggregate of the other files
fun_raises_swallowed ==
    /\ pc = "optimizing"
    /\ pool_ # 0
    /\ raisedIn' = epoch
    /\ UNCHANGED <<pc, pool_, poolsCreated, epoch, model, loads, sad_scores,
                   scored, validated, num, x, xf, fx, nmaps, lowest, usedTags,
                   usedPools, pipeline, result>>
    /\ UNCHANGED <<varsE, varsA, varsD>>

\* the evaluation of a file raises in validate_helper_func: the map raises
\* in fun, and nothing between fun and the caller of validate_epoch catches
fun_raises ==
    /\ pc = "optimizing"
    /\ pool_ # 0
    /\ raisedIn' = epoch
    /\ pc' = "raised"
    /\ UNCHANGED <<pool_, poolsCreated, epoch, model, loads, sad_scores,
                   scored, validated, num, x, xf, fx, nmaps, lowest, usedTags,
                   usedPools, pipeline, result>>
    /\ UNCHANGED <<varsE, varsA, varsD>>

\* (mutant) the result reports the last candidate instead of the best one
ReturnedLast == [metric |-> "detection_error_rate", minimize |-> TRUE,
                 value |-> fx, pipeline |-> Params(x)]

\* threshold = res.x.item(); the returned dictionary
Returned == [metric |-> "detection_error_rate", minimize |-> TRUE,
             value |-> fx, pipeline |-> Params(xf)]

\* validate_epoch returns
validate_epoch_return ==
    /\ pc = "optimized"
    /\ result' = Returned
    /\ pipeline' = Returned.pipeline
    /\ validated' = validated \cup {epoch}
    /\ pc' = "ready"
    /\ UNCHANGED <<pool_, poolsCreated, epoch, model, loads, sad_scores,
                   scored, num, x, xf, fx, nmaps, lowest, usedTags, usedPools,
                   raisedIn>>
    /\ UNCHANGED <<varsE, varsA, varsD>>

\* the single step of Spec returns what the worker processes of SpecEval can
\* produce (checked under SpecEval)
FunReturnsAnOutcome ==
    ret # NoRet => ret.value \in FunOutcomes(ret.th)

Init == InitSession /\ IdleEval /\ IdleApply /\ IdleDriver

Next ==
    \/ validate_init
    \/ \E e \in Epochs : validate_epoch_load(e)
    \/ validate_epoch_score
    \/ validate_epoch_minimize
    \/ \E c \in Thresholds : \E v \in FunOutcomes(c) : minimize_first(c, v)
    \/ \E c \in Thresholds : \E v \in FunOutcomes(c) : minimize_iter(c, v)
    \/ minimize_converged
    \/ fun_raises
    \/ validate_epoch_return

Spec == Init /\ [][Next]_vars

(***************************************************************************)
(* Claims checked under Spec                                               *)
(***************************************************************************)
\* C2: one call of the threshold optimizer evaluates the objective (one
\* parallel map each) at most 10 times, and every candidate it evaluates,
\* and the threshold that is returned, lies in [0, 1], that is in 0..Scale.
C2_BoundedSearch ==
    /\ nmaps <= 10
    /\ nmaps > 0 => (x \in 0..Scale /\ xf \in 0..Scale)
    /\ result # NoResult => result.pipeline.onset \in 0..Scale

\* the cap is reached
C2_Witness == nmaps = 10 /\ pc = "optimized" /\ x \in 0..Scale

\* C3: also when the cap is reached, validate_epoch returns a result; its
\* value is an evaluation of the objective at the reported threshold and
\* the lowest value any candidate of the call evaluated to; its pipeline has
\* onset = offset = that threshold and the four other parameters 0.
C3_ResultIsBest ==
    /\ pc = "optimized" => ENABLED validate_epoch_return
    /\ (pc = "ready" /\ result # NoResult) =>
          /\ result.metric = "detection_error_rate"
          /\ result.minimize
          /\ result.pipeline.offset = result.pipeline.onset
          /\ result.pipeline.min_duration_on = 0
          /\ result.pipeline.min_duration_off = 0
          /\ result.pipeline.pad_onset = 0
          /\ result.pipeline.pad_offset = 0
          /\ result.value \in FunOutcomes(result.pipeline.onset)
          /\ RatEq(result.value, lowest)

\* a result returned at the cap, whose threshold is not the last candidate
C3_Witness ==
    /\ pc = "ready"
    /\ result # NoResult
    /\ nmaps = 10
    /\ x # result.pipeline.onset

\* C6: when the evaluation of a file raises during an objective evaluation,
\* validate_epoch is left by the exception: no result is returned for the
\* epoch and the epoch is not counted as validated.
C6_FailureAborts ==
    raisedIn # 0 =>
        /\ pc = "raised"
        /\ raisedIn = epoch
        /\ result = NoResult
        /\ epoch \notin validated

\* a failure in a later evaluation of a later epoch
C6_Witness ==
    /\ pc = "raised"
    /\ nmaps >= 2
    /\ validated # {}

\* C8: within one epoch the checkpoint is loaded once, every file is scored
\* with it before the first objective evaluation, and every evaluation uses
\* the scores of this epoch's checkpoint.
C8_FreshScores ==
    /\ pc \in {"scoring", "optimizing", "optimized"} =>
          (loads = 1 /\ model = epoch)
    /\ pc \in {"optimizing", "optimized"} =>
          \A f \in Files : sad_scores[f] = epoch
    /\ nmaps > 0 => usedTags = {epoch}

\* an objective evaluation of an epoch validated after another one
C8_Witness ==
    /\ validated # {}
    /\ pc = "optimizing"
    /\ nmaps > 0
    /\ usedTags = {epoch}
    /\ epoch \notin validated

\* C9: the session creates the pool once, in validate_init; validate_epoch
\* creates none; every objective evaluation uses that pool, and none runs
\* before it exists.
C9_OnePool ==
    /\ poolsCreated <= 1
    /\ pc # "new" => (poolsCreated = 1 /\ pool_ = 1)
    /\ usedPools \subseteq {1}
    /\ nmaps > 0 => usedPools = {pool_}

\* the pool of validate_init serves a second epoch
C9_Witness ==
    /\ validated # {}
    /\ epoch \notin validated
    /\ nmaps >= 2
    /\ usedPools = {1}
    /\ poolsCreated = 1

(***************************************************************************)
(* SpecApply: SpeechActivityDetection.apply.  Durations and steps are in   *)
(* units of which a window holds a multiple of four, so that               *)
(* 0.25 * duration is exact.                                               *)
(***************************************************************************)
MaxQuarters == 3      \* window durations are 4, 8, .. 4 * MaxQuarters units
MaxStep == 3          \* --step is 1 .. MaxStep units, or absent
NApplyFiles == 2      \* files of each subset of the protocol

Durations == {4 * k : k \in 1..MaxQuarters}
StepArgs == {<<>>} \cup {<<v>> : v \in 1..MaxStep}
Subsets == <<"train", "development", "test">>

\* 0.25 * duration
Quarter(d) == d \div 4

\* getattr(protocol, subset)(): the files of one subset
SubsetFiles(k) == [i \in 1..NApplyFiles |-> (k - 1) * NApplyFiles + i]

\* FileFinder.protocol_file_iter(protocol): the files of every subset
RECURSIVE AllFiles(_)
AllFiles(k) == IF k = 0 THEN <<>> ELSE AllFiles(k - 1) \o SubsetFiles(k)

ProtocolFiles(sub) ==
    IF sub = None THEN AllFiles(Len(Subsets))
    ELSE SubsetFiles(CHOOSE k \in 1..Len(Subsets) : Subsets[k] = sub)

InitApply ==
    /\ InitSession /\ IdleEval /\ IdleDriver
    /\ a_pc = "called"
    /\ duration \in Durations
    /\ stepArg \in StepArgs
    /\ subset \in {None} \cup {Subsets[k] : k \in 1..Len(Subsets)}
    /\ step = 0 /\ sequence_labeling = NoLabeler /\ precomputed = NoStore
    /\ files = <<>>

\* duration = self.task_.duration; if step is None: step = 0.25 * duration
apply_step ==
    /\ a_pc = "called"
    /\ step' = IF stepArg = <<>> THEN Quarter(duration) ELSE stepArg[1]
    /\ a_pc' = "configured"
    /\ UNCHANGED <<duration, stepArg, subset, sequence_labeling, precomputed,
                   files>>
    /\ UNCHANGED <<varsE, varsV, varsD>>

\* sequence_labeling = SequenceLabeling(..., duration=duration,
\*                                      step=.25 * duration, ...)
NewSequenceLabeling == [duration |-> duration, step |-> Quarter(duration)]

\* the labeler, the root metadata of the output store, the file generator
apply_open ==
    /\ a_pc = "configured"
    /\ sequence_labeling' = NewSequenceLabeling
    /\ precomputed' = [sliding_window |-> NewSequenceLabeling,
                       dimension |-> "n_classes", dumped |-> {}]
    /\ files' = ProtocolFiles(subset)
    /\ a_pc' = "dumping"
    /\ UNCHANGED <<duration, stepArg, subset, step>>
    /\ UNCHANGED <<varsE, varsV, varsD>>

\* fX = sequence_labeling(current_file); precomputed.dump(current_file, fX)
apply_dump ==
    /\ a_pc = "dumping"
    /\ files # <<>>
    /\ LET fX == [file |-> Head(files), step |-> sequence_labeling.step,
                  duration |-> sequence_labeling.duration]
       IN precomputed' = [precomputed EXCEPT !.dumped = @ \cup {fX}]
    /\ files' = Tail(files)
    /\ UNCHANGED <<a_pc, duration, stepArg, subset, step, sequence_labeling>>
    /\ UNCHANGED <<varsE, varsV, varsD>>

\* the file generator is exhausted
apply_return ==
    /\ a_pc = "dumping"
    /\ files = <<>>
    /\ a_pc' = "done"
    /\ UNCHANGED <<duration, stepArg, subset, step, sequence_labeling,
                   precomputed, files>>
    /\ UNCHANGED <<varsE, varsV, varsD>>

NextApply == apply_step \/ apply_open \/ apply_dump \/ apply_return

SpecApply == InitApply /\ [][NextApply]_vars

\* C1: the step with which the labeler computes every file's score stream
\* is the step argument when one is given and 0.25 * duration when it is
\* None, and the root metadata of the output store describes that step.
C1_StepHonoured ==
    a_pc \in {"dumping", "done"} =>
        LET expected == IF stepArg = <<>> THEN Quarter(duration)
                        ELSE stepArg[1]
        IN /\ sequence_labeling.step = expected
           /\ \A fX \in precomputed.dumped : fX.step = expected
           /\ precomputed.sliding_window.step = expected

(***************************************************************************)
(* SpecDriver: the epoch watcher of the "validate" mode                    *)
(* (application.validate(protocol_name, subset, start, end, every,         *)
(* in_order)).  Checkpoints of the epochs 0..MaxEpoch appear in any order  *)
(* while the driver runs; taking and validating an epoch is one step here. *)
(***************************************************************************)
MaxEpoch == 4      \* the training run writes the checkpoints 0 .. MaxEpoch
MaxEvery == 2      \* --every is 1 .. MaxEvery

EpochNumbers == 0..MaxEpoch

Range(seq) == {seq[i] : i \in 1..Len(seq)}

\* an epoch the driver is to validate: within [start, end] and a multiple
\* of the interval
Eligible(e) == start <= e /\ e <= end /\ e % every = 0

\* the lowest eligible epoch not validated yet
Expected(e) ==
    /\ Eligible(e)
    /\ e \notin Range(processed)
    /\ \A o \in EpochNumbers :
          (Eligible(o) /\ o \notin Range(processed)) => e <= o

\* (mutant) the driver takes any new eligible epoch, in_order or not
MayProcessAny(e) ==
    /\ Eligible(e)
    /\ e \notin Range(processed)
    /\ e \in Range(arrived)

\* the epoch the driver may take next: its checkpoint exists, it is new,
\* and with in_order it is the expected one
MayProcess(e) ==
    /\ Eligible(e)
    /\ e \notin Range(processed)
    /\ e \in Range(arrived)
    /\ in_order => Expected(e)

InitDriver ==
    /\ InitSession /\ IdleEval /\ IdleApply
    /\ d_pc = "waiting"
    /\ every \in 1..MaxEvery
    /\ start \in {0, MaxEvery}
    /\ start % every = 0
    /\ end \in {MaxEpoch - 1, MaxEpoch}
    /\ in_order \in BOOLEAN
    /\ arrived = <<>> /\ processed = <<>> /\ current = -1

\* the training run completes an epoch: its checkpoint appears
checkpoint_appears(e) ==
    /\ e \notin Range(arrived)
    /\ arrived' = Append(arrived, e)
    /\ UNCHANGED <<d_pc, start, end, every, in_order, processed, current>>
    /\ UNCHANGED <<varsE, varsV, varsA>>

\* a poll finds an epoch to validate; it is validated and its result
\* reported; the driver is done when no eligible epoch is left
driver_validate(e) ==
    /\ d_pc = "waiting"
    /\ MayProcess(e)
    /\ current' = e
    /\ processed' = Append(processed, e)
    /\ d_pc' = IF \A o \in EpochNumbers :
                     Eligible(o) => o \in Range(processed) \cup {e}
               THEN "done" ELSE "waiting"
    /\ UNCHANGED <<start, end, every, in_order, arrived>>
    /\ UNCHANGED <<varsE, varsV, varsA>>

NextDriver ==
    \/ \E e \in EpochNumbers : checkpoint_appears(e)
    \/ \E e \in EpochNumbers : driver_validate(e)

SpecDriver == InitDriver /\ [][NextDriver]_vars

\* C5: with in_order the driver processes the epochs of [start, end] that
\* match the interval strictly in increasing order, whatever the order in
\* which the checkpoints appear: the k-th epoch it processes is the k-th
\* such epoch, its checkpoint existed, and when the driver is done every
\* such epoch has been processed.
C5_InOrder ==
    in_order =>
        /\ \A k \in 1..Len(processed) :
              /\ processed[k] = start + (k - 1) * every
              /\ processed[k] <= end
              /\ processed[k] \in Range(arrived)
        /\ d_pc = "done" =>
              \A e \in start..end :
                  e % every = 0 => e \in Range(processed)

\* start=0, every=2, checkpoints appearing in the order 2, 0, 4, 1, 3
C5_Witness ==
    /\ in_order /\ start = 0 /\ every = 2 /\ end = 4
    /\ arrived = <<2, 0, 4, 1, 3>>
    /\ processed = <<0, 2, 4>>
    /\ d_pc = "done"

====
